---- MODULE Spec2Model ----
(***************************************************************************)
(* OpenQASM3Translator (openqasm/translator/translator.py): the tree walker *)
(* that lowers an OpenQASM 3 AST into a circuit.  translate creates an      *)
(* empty circuit and an empty context and runs _process_Statement on every  *)
(* statement in source order; _process_Statement dispatches on the node's   *)
(* type name to the method "_process_" + type name.                         *)
(*                                                                          *)
(* The handlers are translated from translator.py.  The collaborators they  *)
(* call are not part of the translator's file: the symbol context, the      *)
(* expression evaluator, the identifier resolver and the modifier applier   *)
(* are modelled from their specified contracts, and the circuit (the        *)
(* external sink) is modelled by the narrow capability surface the          *)
(* translator consumes: one entry per add_register / append / reset call.   *)
(***************************************************************************)
EXTENDS Integers, Sequences, FiniteSets, TLC

VARIABLES
    circuit,    \* translate's QuantumCircuit (the sink)
    context,    \* translate's OpenQASMContext
    raised,     \* the exception translate has propagated, NoError if none
    pc,         \* "loop": in translate's for loop; "returned"; "raised"
    ast         \* the statements of the program the loop has taken so far

vars == <<circuit, context, raised, pc, ast>>

-----------------------------------------------------------------------------
(* Bounds of the model. *)

\* Longest program (top-level statements) explored.
MaxStmts == 3

-----------------------------------------------------------------------------
(* Exceptions. *)

NoError == [kind |-> "", arg |-> ""]

Error(kind, arg) == [kind |-> kind, arg |-> arg]

UnsupportedFeature(statement_type_name) == Error("UnsupportedFeature", statement_type_name)

-----------------------------------------------------------------------------
(* Values.  Everything a name can be bound to, and everything an           *)
(* expression can evaluate to, is one record shape:                        *)
(*   kind "value"      a concrete classical value num                      *)
(*   kind "parameter"  the free placeholder Parameter(name)                *)
(*   kind "register"   QuantumRegister(size = num, name = name)            *)
(*   kind "gate"       a gate-definition constructor: the closure's        *)
(*                     circuit (circ) and argnames                         *)
(*   kind "builtin"    a constructor of the external gate table            *)
(*   kind "declared"   declared but not yet defined                        *)
(*   kind "absent"     no entry                                            *)

ZeroPhase == [num |-> 0, syms |-> <<>>]

\* QuantumCircuit(): no qubit, no register, no operation, global phase 0.
EmptyCircuit == [nq |-> 0, qregs |-> <<>>, data |-> <<>>, global_phase |-> ZeroPhase]

\* QuantumCircuit(n): n anonymous qubits, addressed by index.
QuantumCircuit(n) == [EmptyCircuit EXCEPT !.nq = n]

Entry(kind, name, num, circ, argnames) ==
    [kind |-> kind, name |-> name, num |-> num, circ |-> circ, argnames |-> argnames]

Absent == Entry("absent", "", 0, EmptyCircuit, <<>>)

Declared == Entry("declared", "", 0, EmptyCircuit, <<>>)

Value(v) == Entry("value", "", v, EmptyCircuit, <<>>)

Parameter(name) == Entry("parameter", name, 0, EmptyCircuit, <<>>)

QuantumRegister(size, name) == Entry("register", name, size, EmptyCircuit, <<>>)

BuiltinConstructor(name) == Entry("builtin", name, 0, EmptyCircuit, <<>>)

\* def quantum_gate(*parameters, circuit=gate_definition, argnames=argument_names)
GateConstructor(gate_definition, argument_names) ==
    Entry("gate", "", 0, gate_definition, argument_names)

-----------------------------------------------------------------------------
(* AST nodes (openqasm.ast), one record shape per family. *)

\* An absent optional expression (designator, init_expression, argument).
None == [kind |-> "None", val |-> 0, name |-> ""]

IntegerLiteral(v) == [kind |-> "IntegerLiteral", val |-> v, name |-> ""]

Identifier(n) == [kind |-> "Identifier", val |-> 0, name |-> n]

\* A qubit operand: a bare name (index -1) or name[index].
Qubit(n) == [name |-> n, index |-> -1]

IndexIdentifier(n, i) == [name |-> n, index |-> i]

QuantumGateModifier(modifier, argument) == [modifier |-> modifier, argument |-> argument]

\* A statement node: type is the node's class name; the other fields are the
\* class's fields, unused ones empty.
Statement(type, name, expr, arguments, qubits, modifiers, body) ==
    [type |-> type, name |-> name, expr |-> expr, arguments |-> arguments,
     qubits |-> qubits, modifiers |-> modifiers, body |-> body]

QubitDeclaration(name, designator) ==
    Statement("QubitDeclaration", name, designator, <<>>, <<>>, <<>>, <<>>)

ConstantDeclaration(name, init_expression) ==
    Statement("ConstantDeclaration", name, init_expression, <<>>, <<>>, <<>>, <<>>)

ClassicalDeclaration(name, init_expression) ==
    Statement("ClassicalDeclaration", name, init_expression, <<>>, <<>>, <<>>, <<>>)

QuantumReset(qubits) ==
    Statement("QuantumReset", "", None, <<>>, qubits, <<>>, <<>>)

QuantumGate(modifiers, name, arguments, qubits) ==
    Statement("QuantumGate", name, None, arguments, qubits, modifiers, <<>>)

QuantumGateDefinition(name, arguments, qubits, body) ==
    Statement("QuantumGateDefinition", name, None, arguments, qubits, <<>>, body)

QuantumPhase(modifiers, argument, qubits) ==
    Statement("QuantumPhase", "", argument, <<>>, qubits, modifiers, <<>>)

\* A node of a class the translator has no method for.
OtherStatement(type) == Statement(type, "", None, <<>>, <<>>, <<>>, <<>>)

-----------------------------------------------------------------------------
(* The symbol context (openqasm.translator.context.OpenQASMContext).       *)

\* Every identifier the explored programs use.
Names == {"q", "r", "c", "g", "h", "w", "a", "b", "t", "k", "u", "x", "rz"}

\* The external name -> constructor table; the number is the constructor's
\* number of parameters.
BuiltinGates == [x |-> 0, rz |-> 1]

\* OpenQASMContext(): nothing bound.
OpenQASMContext == [n \in Names |-> Absent]

IsDefined(ctx, name) == ctx[name].kind \notin {"absent", "declared"}

\* declare(name, span): record the name as declared but undefined.
declare_symbol(ctx, name) ==
    IF IsDefined(ctx, name)
    THEN [context |-> ctx, raised |-> Error("DuplicateDeclaration", name)]
    ELSE [context |-> [ctx EXCEPT ![name] = Declared], raised |-> NoError]

\* define(name, value, span): bind, replacing a declared-but-undefined entry,
\* failing on a redefinition.
add_symbol(ctx, name, value) ==
    IF IsDefined(ctx, name)
    THEN [context |-> ctx, raised |-> Error("DuplicateDeclaration", name)]
    ELSE [context |-> [ctx EXCEPT ![name] = value], raised |-> NoError]

\* lookup(name, span): the bound value; names not locally bound fall through
\* to the gate table; anything else is unresolved.
lookup(ctx, name) ==
    IF IsDefined(ctx, name)
    THEN [value |-> ctx[name], raised |-> NoError]
    ELSE IF ctx[name].kind = "absent" /\ name \in DOMAIN BuiltinGates
    THEN [value |-> BuiltinConstructor(name), raised |-> NoError]
    ELSE [value |-> Absent, raised |-> Error("UnresolvedSymbol", name)]

\* A "copy" that is the context itself (an assignment instead of a deepcopy).
SameContext(ctx) == [alias |-> TRUE, state |-> ctx]

\* deepcopy(context): a new object (alias FALSE) that starts out equal to the
\* original; what is done to it afterwards is not done to the original.
deepcopy(ctx) == [alias |-> FALSE, state |-> ctx]

-----------------------------------------------------------------------------
(* Expression evaluator, identifier resolver, modifier applier.            *)

\* compute_expression(expr, context): a literal as it is, an identifier by
\* lookup.
compute_expression(expr, ctx) ==
    IF expr.kind = "Identifier"
    THEN lookup(ctx, expr.name)
    ELSE [value |-> Value(expr.val), raised |-> NoError]

\* A qubit handle: qubit idx of register reg, or (reg = "") qubit idx of the
\* circuit.
Bit(reg, idx) == [reg |-> reg, idx |-> idx]

\* The targets of an operand whose name is bound to v.  A bare identifier is
\* the whole register, an indexed one a single qubit; a name bound to a
\* position (a gate definition's qubit parameter) is that qubit of the
\* circuit.
Targets(v, ref) ==
    IF v.kind = "register" /\ ref.index = -1
    THEN [targets |-> [i \in 1..v.num |-> Bit(v.name, i - 1)], raised |-> NoError]
    ELSE IF v.kind = "register" /\ ref.index \in 0..(v.num - 1)
    THEN [targets |-> <<Bit(v.name, ref.index)>>, raised |-> NoError]
    ELSE IF v.kind = "value" /\ ref.index = -1
    THEN [targets |-> <<Bit("", v.num)>>, raised |-> NoError]
    ELSE [targets |-> <<>>, raised |-> Error("InvalidOperand", ref.name)]

\* get_identifier(qubit, context): the list of targets of one operand.
get_identifier(ref, ctx) ==
    IF lookup(ctx, ref.name).raised # NoError
    THEN [targets |-> <<>>, raised |-> lookup(ctx, ref.name).raised]
    ELSE Targets(lookup(ctx, ref.name).value, ref)

\* A gate instance: a built-in gate (name, params) or a gate made from a
\* circuit (definition), under the modifiers applied to it, innermost first.
Gate(name, params, definition, mods) ==
    [name |-> name, params |-> params, definition |-> definition, mods |-> mods]

\* The argument of a modifier (if any) evaluated in the context.
ModifierArgument(modifier, ctx) ==
    IF modifier.argument = None
    THEN [value |-> Absent, raised |-> NoError]
    ELSE compute_expression(modifier.argument, ctx)

\* The gate wrapped in the modifier with that argument.
Modified(gate, modifier, arg) ==
    IF arg.raised # NoError
    THEN [gate |-> gate, raised |-> arg.raised]
    ELSE [gate |-> [gate EXCEPT !.mods =
                      Append(@, [modifier |-> modifier.modifier, argument |-> arg.value])],
          raised |-> NoError]

\* apply_modifier(gate, modifier, context)
apply_modifier(gate, modifier, ctx) == Modified(gate, modifier, ModifierArgument(modifier, ctx))

-----------------------------------------------------------------------------
(* The circuit (qiskit's QuantumCircuit), by the capabilities used: one    *)
(* entry of qregs per add_register, one entry of data per append or reset  *)
(* call, a global phase that accumulates.                                  *)

\* An entry of circuit.data: the gate (or reset) and the operands it is bound
\* to, one list of qubit handles per operand.
Instruction(op, gate, qargs) == [op |-> op, gate |-> gate, qargs |-> qargs]

ResetGate == Gate("reset", <<>>, EmptyCircuit, <<>>)

\* circuit.add_register(register): register names are unique within a circuit.
add_register(circ, register) ==
    IF \E i \in 1..Len(circ.qregs) : circ.qregs[i].name = register.name
    THEN [circuit |-> circ, raised |-> Error("CircuitError", register.name)]
    ELSE [circuit |-> [circ EXCEPT !.qregs =
                         Append(@, [name |-> register.name, size |-> register.num])],
          raised |-> NoError]

\* circuit.append(gate, qargs=qubits)
append(circ, gate, qargs) ==
    [circ EXCEPT !.data = Append(@, Instruction("gate", gate, qargs))]

\* circuit.reset(targets)
reset(circ, targets) ==
    [circ EXCEPT !.data = Append(@, Instruction("reset", ResetGate, <<targets>>))]

\* phase + value: a number adds up, a free parameter stays symbolic.
AddPhase(phase, value) ==
    IF value.kind = "value"
    THEN [phase |-> [phase EXCEPT !.num = @ + value.num], raised |-> NoError]
    ELSE IF value.kind = "parameter"
    THEN [phase |-> [phase EXCEPT !.syms = Append(@, value.name)], raised |-> NoError]
    ELSE [phase |-> phase, raised |-> Error("TypeError", value.kind)]

\* {argnames[i]: pvalue for i, pvalue in enumerate(parameters)}: a later
\* duplicate key overwrites an earlier one.
ParameterMap(argnames, parameters) ==
    [n \in {argnames[i] : i \in 1..Len(parameters)} |->
        LET last == CHOOSE i \in 1..Len(parameters) :
                        /\ argnames[i] = n
                        /\ \A j \in (i + 1)..Len(parameters) : argnames[j] # n
        IN  parameters[last]]

\* One value under a parameter map.
BindValue(value, map) ==
    IF value.kind = "parameter" /\ value.name \in DOMAIN map THEN map[value.name] ELSE value

RECURSIVE BindPhase(_, _, _)
\* The symbolic terms of a phase from position i on, under a parameter map.
BindPhase(phase, i, map) ==
    IF i > Len(phase.syms)
    THEN [num |-> phase.num, syms |-> <<>>]
    ELSE LET rest == BindPhase(phase, i + 1, map)
             v == BindValue(Parameter(phase.syms[i]), map)
         IN  IF v.kind = "value"
             THEN [rest EXCEPT !.num = @ + v.num]
             ELSE [rest EXCEPT !.syms = <<v.name>> \o @]

RECURSIVE BindCircuit(_, _)
\* A circuit with the free parameters the map names replaced by the map's
\* values, in its operations, in their definitions and in its global phase.
BindCircuit(circ, map) ==
    [circ EXCEPT
        !.data = [i \in 1..Len(circ.data) |->
                    LET g == circ.data[i].gate
                    IN  [circ.data[i] EXCEPT !.gate =
                           Gate(g.name,
                                [j \in 1..Len(g.params) |-> BindValue(g.params[j], map)],
                                BindCircuit(g.definition, map),
                                [j \in 1..Len(g.mods) |->
                                    [g.mods[j] EXCEPT !.argument = BindValue(@, map)]])]],
        !.global_phase = BindPhase(circ.global_phase, 1, map)]

\* circuit.to_gate(parameter_map): a new gate whose definition is the circuit
\* with the map applied; the circuit itself is left as it was.
to_gate(circ, map) ==
    [gate |-> Gate("", <<>>, BindCircuit(circ, map), <<>>), circuit |-> circ]

\* QuantumCircuit(1, global_phase=phase)
PhaseCircuit(phase) ==
    [QuantumCircuit(1) EXCEPT !.global_phase = AddPhase(ZeroPhase, phase).phase]

-----------------------------------------------------------------------------
(* The translator's handlers.  Each takes (statement, circuit, context) and *)
(* yields the circuit and the context as the call leaves them, and the      *)
(* exception it raised (NoError if it returned).                            *)

Result(circ, ctx, err) == [circuit |-> circ, context |-> ctx, raised |-> err]

\* A local name for a value: Continue is the rest of the function body.
With(value, Continue(_)) == Continue(value)

\* A call that may raise: if it did, the handler is left with that exception,
\* the circuit and the context as they are at that point; otherwise the
\* handler goes on with what the call returned.
Try(returned, circ, ctx, Continue(_)) ==
    IF returned.raised # NoError
    THEN Result(circ, ctx, returned.raised)
    ELSE Continue(returned)

\* The first exception of a list of evaluations made in order, NoError if
\* none raised.
FirstRaised(results) ==
    IF \A i \in 1..Len(results) : results[i].raised = NoError
    THEN NoError
    ELSE results[CHOOSE i \in 1..Len(results) :
                    /\ results[i].raised # NoError
                    /\ \A j \in 1..(i - 1) : results[j].raised = NoError].raised

\* [compute_expression(arg, context) for arg in exprs]
ComputeExpressions(exprs, ctx) ==
    With([i \in 1..Len(exprs) |-> compute_expression(exprs[i], ctx)], LAMBDA evaluated :
        [values |-> [i \in 1..Len(exprs) |-> evaluated[i].value],
         raised |-> FirstRaised(evaluated)])

\* [get_identifier(qubit, context) for qubit in qubits]
GetIdentifiers(qubits, ctx) ==
    With([i \in 1..Len(qubits) |-> get_identifier(qubits[i], ctx)], LAMBDA resolved :
        [targets |-> [i \in 1..Len(qubits) |-> resolved[i].targets],
         raised |-> FirstRaised(resolved)])

RECURSIVE Flatten(_)
\* sum(lists, start=[])
Flatten(lists) == IF lists = <<>> THEN <<>> ELSE Head(lists) \o Flatten(Tail(lists))

\* A quantum_register_size that is 1 whatever the designator.
RegisterSizeOne(designator, ctx) == [value |-> Value(1), raised |-> NoError]

\* quantum_register_size: 1 if there is no designator, else the designator's
\* value.
RegisterSize(designator, ctx) ==
    IF designator = None
    THEN [value |-> Value(1), raised |-> NoError]
    ELSE compute_expression(designator, ctx)

\* QuantumRegister(size=size, name=name): the size has to be a number.
NewRegister(size, name) ==
    IF size.kind = "value"
    THEN [register |-> QuantumRegister(size.num, name), raised |-> NoError]
    ELSE [register |-> Absent, raised |-> Error("CircuitError", name)]

\* _process_QubitDeclaration
_process_QubitDeclaration(statement, circ, ctx) ==
    Try(RegisterSize(statement.expr, ctx), circ, ctx, LAMBDA quantum_register_size :
    Try(NewRegister(quantum_register_size.value, statement.name), circ, ctx, LAMBDA made :
    Try(add_register(circ, made.register), circ, ctx, LAMBDA added :
    With(add_symbol(ctx, statement.name, made.register), LAMBDA bound :
        Result(added.circuit, bound.context, bound.raised)))))

\* A _process_ConstantDeclaration that takes the "init_expression is None"
\* branch whatever the statement: the name is declared, never defined.
ConstantDeclarationDeclaresOnly(statement, circ, ctx) ==
    With(declare_symbol(ctx, statement.name), LAMBDA declared :
        Result(circ, declared.context, declared.raised))

\* _process_ConstantDeclaration
_process_ConstantDeclaration(statement, circ, ctx) ==
    IF statement.expr = None
    THEN With(declare_symbol(ctx, statement.name), LAMBDA declared :
             Result(circ, declared.context, declared.raised))
    ELSE Try(compute_expression(statement.expr, ctx), circ, ctx, LAMBDA init :
         With(add_symbol(ctx, statement.name, init.value), LAMBDA bound :
             Result(circ, bound.context, bound.raised)))

\* _process_ClassicalDeclaration
_process_ClassicalDeclaration(statement, circ, ctx) ==
    With(statement.name, LAMBDA name :
    With(statement.expr, LAMBDA init_expression :
        IF init_expression = None
        THEN With(declare_symbol(ctx, name), LAMBDA declared :
                 Result(circ, declared.context, declared.raised))
        ELSE Try(compute_expression(init_expression, ctx), circ, ctx, LAMBDA init :
             With(add_symbol(ctx, name, init.value), LAMBDA bound :
                 Result(circ, bound.context, bound.raised)))))

RECURSIVE ResetFrom(_, _, _, _)
\* The loop of _process_QuantumReset from operand i on.
ResetFrom(qubits, i, circ, ctx) ==
    IF i > Len(qubits)
    THEN Result(circ, ctx, NoError)
    ELSE Try(get_identifier(qubits[i], ctx), circ, ctx, LAMBDA target :
             ResetFrom(qubits, i + 1, reset(circ, target.targets), ctx))

\* _process_QuantumReset
_process_QuantumReset(statement, circ, ctx) == ResetFrom(statement.qubits, 1, circ, ctx)

RECURSIVE ApplyModifiersFromLast(_, _, _, _)
\* The modifier loop run over reversed(modifiers).
ApplyModifiersFromLast(gate, modifiers, i, ctx) ==
    IF i > Len(modifiers)
    THEN [gate |-> gate, raised |-> NoError]
    ELSE With(apply_modifier(gate, modifiers[Len(modifiers) + 1 - i], ctx), LAMBDA applied :
             IF applied.raised # NoError
             THEN applied
             ELSE ApplyModifiersFromLast(applied.gate, modifiers, i + 1, ctx))

RECURSIVE ApplyModifiers(_, _, _, _)
\* for modifier in modifiers: quantum_gate = apply_modifier(quantum_gate, ...)
\* from modifier i on.
ApplyModifiers(gate, modifiers, i, ctx) ==
    IF i > Len(modifiers)
    THEN [gate |-> gate, raised |-> NoError]
    ELSE With(apply_modifier(gate, modifiers[i], ctx), LAMBDA applied :
             IF applied.raised # NoError
             THEN applied
             ELSE ApplyModifiers(applied.gate, modifiers, i + 1, ctx))

\* A quantum_gate that binds the parameters in the captured circuit itself
\* (assign_parameters(..., inplace=True)) before making the gate.
CallBindingInPlace(constructor, arguments) ==
    IF constructor.kind = "builtin"
    THEN IF Len(arguments) = BuiltinGates[constructor.name]
         THEN [gate |-> Gate(constructor.name, arguments, EmptyCircuit, <<>>),
               circuit |-> constructor.circ, raised |-> NoError]
         ELSE [gate |-> ResetGate, circuit |-> constructor.circ,
               raised |-> Error("TypeError", constructor.name)]
    ELSE IF constructor.kind = "gate"
    THEN IF Len(arguments) > Len(constructor.argnames)
         THEN [gate |-> ResetGate, circuit |-> constructor.circ,
               raised |-> Error("IndexError", "argnames")]
         ELSE With(BindCircuit(constructor.circ, ParameterMap(constructor.argnames, arguments)),
                   LAMBDA bound :
                       [gate |-> to_gate(bound, << >>).gate, circuit |-> bound,
                        raised |-> NoError])
    ELSE [gate |-> ResetGate, circuit |-> constructor.circ,
          raised |-> Error("TypeError", constructor.kind)]

\* constructor(*arguments): a built-in constructor takes its own number of
\* parameters; a gate definition's constructor is quantum_gate (lines
\* 228-231), which indexes argnames by the position of each parameter.
\* circuit is the closure's circuit after the call.
Call(constructor, arguments) ==
    IF constructor.kind = "builtin"
    THEN IF Len(arguments) = BuiltinGates[constructor.name]
         THEN [gate |-> Gate(constructor.name, arguments, EmptyCircuit, <<>>),
               circuit |-> constructor.circ, raised |-> NoError]
         ELSE [gate |-> ResetGate, circuit |-> constructor.circ,
               raised |-> Error("TypeError", constructor.name)]
    ELSE IF constructor.kind = "gate"
    THEN IF Len(arguments) > Len(constructor.argnames)
         THEN [gate |-> ResetGate, circuit |-> constructor.circ,
               raised |-> Error("IndexError", "argnames")]
         ELSE With(to_gate(constructor.circ, ParameterMap(constructor.argnames, arguments)),
                   LAMBDA made :
                       [gate |-> made.gate, circuit |-> made.circuit, raised |-> NoError])
    ELSE [gate |-> ResetGate, circuit |-> constructor.circ,
          raised |-> Error("TypeError", constructor.kind)]

\* The context once the constructor bound to name has been called: the
\* closure's circuit is the object the call worked on.
Called(ctx, name, gate_definition) ==
    IF ctx[name].kind = "gate" THEN [ctx EXCEPT ![name].circ = gate_definition] ELSE ctx

\* _process_QuantumGate
_process_QuantumGate(statement, circ, ctx) ==
    Try(ComputeExpressions(statement.arguments, ctx), circ, ctx, LAMBDA arguments :
    Try(lookup(ctx, statement.name), circ, ctx, LAMBDA found :
    Try(Call(found.value, arguments.values), circ, ctx, LAMBDA quantum_gate :
    With(Called(ctx, statement.name, quantum_gate.circuit), LAMBDA ctx1 :
    Try(GetIdentifiers(statement.qubits, ctx1), circ, ctx1, LAMBDA qubits :
    Try(ApplyModifiers(quantum_gate.gate, statement.modifiers, 1, ctx1), circ, ctx1,
        LAMBDA modified :
            Result(append(circ, modified.gate, qubits.targets), ctx1, NoError)))))))

\* circuit.global_phase += phase
AddGlobalPhase(circ, phase, ctx) ==
    Try(AddPhase(circ.global_phase, phase), circ, ctx, LAMBDA summed :
        Result([circ EXCEPT !.global_phase = summed.phase], ctx, NoError))

\* A _process_QuantumPhase whose "circuit.global_phase += phase" is not
\* under the "if not qubits": the phase also goes to the circuit when the
\* statement has operands.
QuantumPhaseAlwaysGlobal(statement, circ, ctx) ==
    Try(compute_expression(statement.expr, ctx), circ, ctx, LAMBDA phase :
    Try(GetIdentifiers(statement.qubits, ctx), circ, ctx, LAMBDA resolved :
    Try(AddGlobalPhase(circ, phase.value, ctx), circ, ctx, LAMBDA phased :
        IF Flatten(resolved.targets) = <<>>
        THEN phased
        ELSE Try(ApplyModifiers(to_gate(PhaseCircuit(phase.value), << >>).gate,
                                statement.modifiers, 1, ctx), circ, ctx,
                 LAMBDA modified :
                     Result(append(phased.circuit, modified.gate,
                                   [i \in 1..Len(Flatten(resolved.targets)) |->
                                       <<Flatten(resolved.targets)[i]>>]),
                            ctx, NoError)))))

\* _process_QuantumPhase
_process_QuantumPhase(statement, circ, ctx) ==
    Try(compute_expression(statement.expr, ctx), circ, ctx, LAMBDA phase :
    Try(GetIdentifiers(statement.qubits, ctx), circ, ctx, LAMBDA resolved :
    With(Flatten(resolved.targets), LAMBDA qubits :
        IF qubits = <<>>
        THEN AddGlobalPhase(circ, phase.value, ctx)
        ELSE Try(AddPhase(ZeroPhase, phase.value), circ, ctx, LAMBDA valid :
             With(to_gate(PhaseCircuit(phase.value), << >>).gate, LAMBDA phased_gate :
             Try(ApplyModifiers(phased_gate, statement.modifiers, 1, ctx), circ, ctx,
                 LAMBDA modified :
                     Result(append(circ, modified.gate,
                                   [i \in 1..Len(qubits) |-> <<qubits[i]>>]),
                            ctx, NoError)))))))

-----------------------------------------------------------------------------
(* Dispatch and gate definitions.                                          *)

NODE_PROCESSING_FUNCTIONS_PREFIX == <<"_process_">>

\* The functions of class OpenQASM3Translator, each name as the pieces it is
\* made of (so that prefix tests and slices are computed, not assumed).
ClassFunctions ==
    { <<"translate">>,
      <<"_process_", "Statement">>,
      <<"supported_features">>,
      <<"_process_", "QubitDeclaration">>,
      <<"_process_", "ConstantDeclaration">>,
      <<"_process_", "ClassicalDeclaration">>,
      <<"_process_", "QuantumReset">>,
      <<"_process_", "QuantumGate">>,
      <<"_process_", "QuantumGateDefinition">>,
      <<"_process_", "QuantumPhase">> }

\* Every attribute of the class: its functions and its one data attribute.
ClassAttributes == ClassFunctions \cup { <<"NODE_PROCESSING_FUNCTIONS_PREFIX">> }

\* method_name.startswith(prefix)
startswith(method_name, prefix) ==
    /\ Len(method_name) >= Len(prefix)
    /\ SubSeq(method_name, 1, Len(prefix)) = prefix

\* hasattr(OpenQASM3Translator, name)
hasattr(name) == name \in ClassAttributes

\* supported_features(): method_name[len(prefix):] of every function of the
\* class whose name starts with the prefix.
supported_features ==
    { SubSeq(method_name, Len(NODE_PROCESSING_FUNCTIONS_PREFIX) + 1, Len(method_name)) :
        method_name \in { m \in ClassFunctions :
                            startswith(m, NODE_PROCESSING_FUNCTIONS_PREFIX) } }

RECURSIVE _process_Statement(_, _, _)

RECURSIVE ProcessBody(_, _, _, _)
\* for st in statement.body: _process_Statement(st, gate_definition,
\* gate_definition_context), from statement i on.
ProcessBody(body, i, circ, ctx) ==
    IF i > Len(body)
    THEN Result(circ, ctx, NoError)
    ELSE With(_process_Statement(body[i], circ, ctx), LAMBDA done :
             IF done.raised # NoError
             THEN done
             ELSE ProcessBody(body, i + 1, done.circuit, done.context))

RECURSIVE AddSymbols(_, _, _)
\* A loop of add_symbol(name, value) over the pairs, from pair i on.
AddSymbols(ctx, pairs, i) ==
    IF i > Len(pairs)
    THEN [context |-> ctx, raised |-> NoError]
    ELSE With(add_symbol(ctx, pairs[i].name, pairs[i].value), LAMBDA bound :
             IF bound.raised # NoError
             THEN bound
             ELSE AddSymbols(bound.context, pairs, i + 1))

\* list(qubit_indices.items()) for qubit_indices = {qn: qi for qi, qn in
\* enumerate(qubit_names)}: one item per distinct name, in the order of first
\* occurrence, with the index of the name's last occurrence.
QubitIndices(qubit_names) ==
    LET firsts == { i \in 1..Len(qubit_names) :
                      \A j \in 1..(i - 1) : qubit_names[j] # qubit_names[i] }
        nth(k) == CHOOSE i \in firsts : Cardinality({ j \in firsts : j < i }) = k - 1
        last(n) == CHOOSE i \in 1..Len(qubit_names) :
                      /\ qubit_names[i] = n
                      /\ \A j \in (i + 1)..Len(qubit_names) : qubit_names[j] # n
    IN  [k \in 1..Cardinality(firsts) |->
            [name |-> qubit_names[nth(k)],
             value |-> Value(last(qubit_names[nth(k)]) - 1)]]

\* qubit_names = [q.name for q in statement.qubits]
QubitNames(statement) == [i \in 1..Len(statement.qubits) |-> statement.qubits[i].name]

\* argument_names = [arg.name for arg in statement.arguments]
ArgumentNames(statement) ==
    [i \in 1..Len(statement.arguments) |-> statement.arguments[i].name]

\* Lines 221-224: the copied context seeded with the qubit parameters (each
\* bound to its position) and the classical parameters (each bound to a free
\* Parameter).
SeedContext(statement, ctx) ==
    With(AddSymbols(ctx, QubitIndices(QubitNames(statement)), 1), LAMBDA with_qubits :
        IF with_qubits.raised # NoError
        THEN with_qubits
        ELSE AddSymbols(with_qubits.context,
                        [i \in 1..Len(statement.arguments) |->
                            [name |-> ArgumentNames(statement)[i],
                             value |-> Parameter(ArgumentNames(statement)[i])]],
                        1))

\* Lines 219-226: the sub-circuit and the seeded context, and the body
\* translated into them.
GateDefinitionBody(statement, ctx) ==
    With(QuantumCircuit(Len(QubitNames(statement))), LAMBDA gate_definition :
    Try(SeedContext(statement, ctx), gate_definition, ctx, LAMBDA seeded :
        ProcessBody(statement.body, 1, gate_definition, seeded.context)))

\* A _process_QuantumGateDefinition that binds the name first (to the still
\* empty sub-circuit) and then translates the body in a copy of that context.
QuantumGateDefinitionBindsFirst(statement, circ, ctx) ==
    Try(add_symbol(ctx, statement.name,
                   GateConstructor(QuantumCircuit(Len(QubitNames(statement))),
                                   ArgumentNames(statement))),
        circ, ctx, LAMBDA bound :
    Try(GateDefinitionBody(statement, deepcopy(bound.context).state), circ, bound.context,
        LAMBDA translated :
            Result(circ,
                   [bound.context EXCEPT ![statement.name].circ = translated.circuit],
                   NoError)))

\* _process_QuantumGateDefinition
_process_QuantumGateDefinition(statement, circ, ctx) ==
    With(deepcopy(ctx), LAMBDA gate_definition_context :
    With(GateDefinitionBody(statement, gate_definition_context.state), LAMBDA inner :
    \* the caller's context object: touched by the body only if the body's
    \* context is that very object
    With(IF gate_definition_context.alias THEN inner.context ELSE ctx, LAMBDA outer :
    Try(inner, circ, outer, LAMBDA translated :
    With(GateConstructor(translated.circuit, ArgumentNames(statement)), LAMBDA quantum_gate :
    With(add_symbol(outer, statement.name, quantum_gate), LAMBDA bound :
        Result(circ, bound.context, bound.raised)))))))

\* getattr(OpenQASM3Translator, processing_function_name)(statement, circuit,
\* context).  The method found for a node of class Statement is
\* _process_Statement itself, which then calls itself with the same
\* arguments until the interpreter's recursion limit ends it.
CallMethod(processing_function_name, statement, circ, ctx) ==
    CASE processing_function_name = <<"_process_", "QubitDeclaration">> ->
            _process_QubitDeclaration(statement, circ, ctx)
      [] processing_function_name = <<"_process_", "ConstantDeclaration">> ->
            _process_ConstantDeclaration(statement, circ, ctx)
      [] processing_function_name = <<"_process_", "ClassicalDeclaration">> ->
            _process_ClassicalDeclaration(statement, circ, ctx)
      [] processing_function_name = <<"_process_", "QuantumReset">> ->
            _process_QuantumReset(statement, circ, ctx)
      [] processing_function_name = <<"_process_", "QuantumGate">> ->
            _process_QuantumGate(statement, circ, ctx)
      [] processing_function_name = <<"_process_", "QuantumGateDefinition">> ->
            _process_QuantumGateDefinition(statement, circ, ctx)
      [] processing_function_name = <<"_process_", "QuantumPhase">> ->
            _process_QuantumPhase(statement, circ, ctx)
      [] processing_function_name = <<"_process_", "Statement">> ->
            Result(circ, ctx, Error("RecursionError", "_process_Statement"))
      [] OTHER ->
            Result(circ, ctx, Error("TypeError", "not callable"))

\* A _process_Statement that passes over a node it has no method for.
ProcessStatementSkipping(statement, circ, ctx) ==
    IF ~hasattr(NODE_PROCESSING_FUNCTIONS_PREFIX \o <<statement.type>>)
    THEN Result(circ, ctx, NoError)
    ELSE CallMethod(NODE_PROCESSING_FUNCTIONS_PREFIX \o <<statement.type>>,
                    statement, circ, ctx)

\* _process_Statement
_process_Statement(statement, circ, ctx) ==
    With(statement.type, LAMBDA statement_type_name :
    With(NODE_PROCESSING_FUNCTIONS_PREFIX \o <<statement_type_name>>,
         LAMBDA processing_function_name :
        IF ~hasattr(processing_function_name)
        THEN Result(circ, ctx, UnsupportedFeature(statement_type_name))
        ELSE CallMethod(processing_function_name, statement, circ, ctx)))

-----------------------------------------------------------------------------
(* The programs explored: every sequence of at most MaxStmts statements    *)
(* drawn from Statements.                                                  *)

inv == QuantumGateModifier("inv", None)

ctrl == QuantumGateModifier("ctrl", None)

pow(e) == QuantumGateModifier("pow", e)

QubitDeclarations ==
    { QubitDeclaration("q", None),
      QubitDeclaration("q", IntegerLiteral(2)),
      QubitDeclaration("q", Identifier("c")),
      QubitDeclaration("c", None),
      QubitDeclaration("k", None),
      QubitDeclaration("g", None) }

ConstantDeclarations ==
    { ConstantDeclaration("c", e) : e \in {None, IntegerLiteral(1), IntegerLiteral(2)} }

ClassicalDeclarations ==
    { ClassicalDeclaration("k", e) : e \in {None, IntegerLiteral(1), Identifier("c")} }

QuantumResets ==
    { QuantumReset(<<Qubit("q")>>),
      QuantumReset(<<IndexIdentifier("q", 0), Qubit("u")>>) }

QuantumGates ==
    { QuantumGate(<<>>, "x", <<>>, <<IndexIdentifier("q", 0)>>),
      QuantumGate(<<>>, "x", <<>>, <<Qubit("q")>>),
      QuantumGate(<<>>, "x", <<>>, <<Qubit("u")>>),
      QuantumGate(<<inv, ctrl>>, "x", <<>>, <<IndexIdentifier("q", 0), IndexIdentifier("q", 1)>>),
      QuantumGate(<<ctrl, inv>>, "x", <<>>, <<IndexIdentifier("q", 0), IndexIdentifier("q", 1)>>),
      QuantumGate(<<pow(Identifier("k"))>>, "x", <<>>, <<IndexIdentifier("q", 0)>>),
      QuantumGate(<<>>, "rz", <<Identifier("c")>>, <<IndexIdentifier("q", 0)>>),
      QuantumGate(<<>>, "g", <<IntegerLiteral(1)>>,
                  <<IndexIdentifier("q", 0), IndexIdentifier("q", 1)>>),
      QuantumGate(<<inv>>, "g", <<IntegerLiteral(2)>>,
                  <<IndexIdentifier("q", 1), IndexIdentifier("q", 0)>>),
      QuantumGate(<<>>, "h", <<>>, <<IndexIdentifier("q", 0)>>) }

QuantumPhases ==
    { QuantumPhase(<<>>, IntegerLiteral(1), <<>>),
      QuantumPhase(<<>>, Identifier("c"), <<>>),
      QuantumPhase(<<inv>>, IntegerLiteral(2), <<>>),
      QuantumPhase(<<>>, IntegerLiteral(1), <<Qubit("q")>>),
      QuantumPhase(<<ctrl, inv>>, IntegerLiteral(1),
                   <<IndexIdentifier("q", 1), IndexIdentifier("q", 0)>>),
      QuantumPhase(<<inv, ctrl>>, Identifier("c"), <<Qubit("q")>>),
      QuantumPhase(<<>>, IntegerLiteral(1), <<Qubit("u")>>) }

\* Bodies of gate g(t) a, b { ... }.
Bodies ==
    { <<>>,
      << QuantumGate(<<>>, "rz", <<Identifier("t")>>, <<Qubit("a")>>),
         QuantumGate(<<>>, "x", <<>>, <<Qubit("b")>>) >>,
      << QuantumPhase(<<>>, Identifier("t"), <<>>),
         QuantumReset(<<Qubit("a")>>) >>,
      << ConstantDeclaration("k", IntegerLiteral(1)),
         QuantumGate(<<pow(Identifier("k"))>>, "x", <<>>, <<Qubit("b")>>) >>,
      << QubitDeclaration("r", None),
         QuantumGate(<<>>, "x", <<>>, <<Qubit("r")>>) >>,
      << QuantumGate(<<>>, "g", <<Identifier("t")>>, <<Qubit("a"), Qubit("b")>>) >>,
      << QuantumGate(<<>>, "x", <<>>, <<Qubit("a")>>),
         OtherStatement("QuantumBarrier") >>,
      << QuantumGate(<<>>, "rz", <<Identifier("c")>>, <<Qubit("b")>>) >>,
      << QuantumGate(<<>>, "h", <<>>, <<Qubit("b")>>) >> }

QuantumGateDefinitions ==
    { QuantumGateDefinition("g", <<Identifier("t")>>, <<Qubit("a"), Qubit("b")>>, body) :
        body \in Bodies }
    \cup
    { QuantumGateDefinition("h", <<>>, <<Qubit("a")>>,
                            <<QuantumGate(<<>>, "x", <<>>, <<Qubit("a")>>)>>),
      QuantumGateDefinition("h", <<>>, <<Qubit("q")>>,
                            <<QuantumGate(<<>>, "x", <<>>, <<Qubit("q")>>)>>),
      QuantumGateDefinition("w", <<>>, <<Qubit("a"), Qubit("b")>>,
                            << QuantumGate(<<>>, "g", <<IntegerLiteral(1)>>,
                                           <<Qubit("a"), Qubit("b")>>),
                               QuantumGate(<<inv>>, "g", <<IntegerLiteral(2)>>,
                                           <<Qubit("b"), Qubit("a")>>) >>) }

\* Node classes the translator has no method for, and the base class.
OtherStatements ==
    { OtherStatement("QuantumMeasurement"),
      OtherStatement("QuantumBarrier"),
      OtherStatement("Statement") }

Statements ==
    QubitDeclarations \cup ConstantDeclarations \cup ClassicalDeclarations
    \cup QuantumResets \cup QuantumGates \cup QuantumGateDefinitions
    \cup QuantumPhases \cup OtherStatements

-----------------------------------------------------------------------------
(* translate(ast) *)

\* circuit = QuantumCircuit(); context = OpenQASMContext()
Init ==
    /\ circuit = EmptyCircuit
    /\ context = OpenQASMContext
    /\ raised = NoError
    /\ pc = "loop"
    /\ ast = <<>>

\* One iteration of "for statement in ast.statements": the statement is
\* processed; an exception leaves translate at once.
Translate(statement) ==
    /\ pc = "loop"
    /\ Len(ast) < MaxStmts
    /\ LET done == _process_Statement(statement, circuit, context)
       IN  /\ circuit' = done.circuit
           /\ context' = done.context
           /\ raised' = done.raised
           /\ pc' = IF done.raised = NoError THEN "loop" ELSE "raised"
    /\ ast' = Append(ast, statement)

TranslateQubitDeclaration ==
    /\ pc = "loop"
    /\ \E statement \in QubitDeclarations : Translate(statement)

TranslateConstantDeclaration ==
    /\ pc = "loop"
    /\ \E statement \in ConstantDeclarations : Translate(statement)

TranslateClassicalDeclaration ==
    /\ pc = "loop"
    /\ \E statement \in ClassicalDeclarations : Translate(statement)

TranslateQuantumReset ==
    /\ pc = "loop"
    /\ \E statement \in QuantumResets : Translate(statement)

TranslateQuantumGate ==
    /\ pc = "loop"
    /\ \E statement \in QuantumGates : Translate(statement)

TranslateQuantumGateDefinition ==
    /\ pc = "loop"
    /\ \E statement \in QuantumGateDefinitions : Translate(statement)

TranslateQuantumPhase ==
    /\ pc = "loop"
    /\ \E statement \in QuantumPhases : Translate(statement)

TranslateOtherStatement ==
    /\ pc = "loop"
    /\ \E statement \in OtherStatements : Translate(statement)

\* return circuit: the statements are exhausted.
Return ==
    /\ pc = "loop"
    /\ pc' = "returned"
    /\ UNCHANGED <<circuit, context, raised, ast>>

Next ==
    \/ TranslateQubitDeclaration
    \/ TranslateConstantDeclaration
    \/ TranslateClassicalDeclaration
    \/ TranslateQuantumReset
    \/ TranslateQuantumGate
    \/ TranslateQuantumGateDefinition
    \/ TranslateQuantumPhase
    \/ TranslateOtherStatement
    \/ Return

Spec == Init /\ [][Next]_vars

-----------------------------------------------------------------------------
(* Vocabulary of the properties.                                           *)

\* The seven node classes the translator documents a handler for.
HandledVariants ==
    { "QubitDeclaration", "ConstantDeclaration", "ClassicalDeclaration",
      "QuantumReset", "QuantumGate", "QuantumGateDefinition", "QuantumPhase" }

\* A node class is registered when the class has the attribute the
\* dispatcher looks for.
Registered(type) == hasattr(NODE_PROCESSING_FUNCTIONS_PREFIX \o <<type>>)

RECURSIVE Replay(_, _)
\* The effects of statements 1..n applied in source order to a new circuit
\* and a new context.
Replay(statements, n) ==
    IF n = 0
    THEN Result(EmptyCircuit, OpenQASMContext, NoError)
    ELSE LET before == Replay(statements, n - 1)
         IN  _process_Statement(statements[n], before.circuit, before.context)

\* The statement translate processed last, and the circuit and context it
\* was processed in.
Last == ast[Len(ast)]

Before == Replay(ast, Len(ast) - 1)

\* One processing of one statement: the circuit and the context it was
\* processed in, and what _process_Statement made of them.
Step(statement, circ, ctx, done) ==
    [statement |-> statement, circuit |-> circ, context |-> ctx, done |-> done]

\* The sub-circuit and the child context as body statement i of a gate
\* definition finds them (raised # NoError: translation does not get to it),
\* and as it leaves them.
BodyBefore(statement, ctx, i) ==
    GateDefinitionBody([statement EXCEPT !.body = SubSeq(@, 1, i - 1)], deepcopy(ctx).state)

BodyAfter(statement, ctx, i) ==
    GateDefinitionBody([statement EXCEPT !.body = SubSeq(@, 1, i)], deepcopy(ctx).state)

\* Every statement processed in a step of translate: the top-level statement
\* and, when it is a gate definition, the statements of its body that
\* translation gets to.
Processed ==
    IF Len(ast') # Len(ast) + 1
    THEN {}
    ELSE LET statement == ast'[Len(ast')]
         IN  { Step(statement, circuit, context, Result(circuit', context', raised')) }
             \cup
             IF statement.type # "QuantumGateDefinition"
             THEN {}
             ELSE { Step(statement.body[i],
                         BodyBefore(statement, context, i).circuit,
                         BodyBefore(statement, context, i).context,
                         BodyAfter(statement, context, i)) :
                    i \in { j \in 1..Len(statement.body) :
                              BodyBefore(statement, context, j).raised = NoError } }

\* The modifiers of a statement as the gate carries them: in listed order,
\* each with its argument's value.
ListedModifiers(statement, ctx) ==
    [i \in 1..Len(statement.modifiers) |->
        [modifier |-> statement.modifiers[i].modifier,
         argument |-> IF statement.modifiers[i].argument = None
                      THEN Absent
                      ELSE compute_expression(statement.modifiers[i].argument, ctx).value]]

\* The operands of a statement, one list of qubit handles per operand.
Operands(statement, ctx) ==
    [i \in 1..Len(statement.qubits) |-> get_identifier(statement.qubits[i], ctx).targets]

\* The sink but for its operation list / its global phase is unchanged.
SameRegisters(before, after) == after.qregs = before.qregs /\ after.nq = before.nq

-----------------------------------------------------------------------------
\* C1: when the statement at position k is the first one of a class with no
\* registered handler (and translation gets to it), translate fails with
\* UnsupportedFeature carrying exactly that class name; at that moment the
\* circuit and the context hold exactly the effects of statements 0..k-1
\* applied in source order, and no statement after k is processed.
C1_UnsupportedFeatureStopsInPlace ==
    \A k \in 1..Len(ast) :
        ~Registered(ast[k].type) =>
            /\ pc = "raised"
            /\ raised = Error("UnsupportedFeature", ast[k].type)
            /\ Len(ast) = k
            /\ Replay(ast, k - 1).raised = NoError
            /\ circuit = Replay(ast, k - 1).circuit
            /\ context = Replay(ast, k - 1).context

\* C1 witness: an unsupported statement met after two statements that left
\* their mark on the circuit and on the context.
C1_Witness ==
    /\ Len(ast) = 3
    /\ ~Registered(Last.type)
    /\ raised.kind = "UnsupportedFeature"
    /\ circuit.qregs # <<>>
    /\ circuit.data # <<>>

\* C2: supported_features() is exactly the seven handled node classes, and a
\* class name is listed if and only if a node of that class is given to its
\* dedicated handler instead of being refused as an UnsupportedFeature.
C2_SupportedFeaturesAreTheHandlers ==
    /\ supported_features = { <<v>> : v \in HandledVariants }
    /\ \A k \in 1..Len(ast) :
          LET done == Replay(ast, k)
              dedicated == /\ ast[k].type \in HandledVariants
                           /\ done.raised # Error("UnsupportedFeature", ast[k].type)
                           /\ done.raised.kind # "RecursionError"
          IN  (<<ast[k].type>> \in supported_features) <=> dedicated

-----------------------------------------------------------------------------
\* The effect of a completed QuantumPhase statement.
PhaseEffect(s) ==
    LET phase == compute_expression(s.statement.expr, s.context).value
        qubits == Flatten(Operands(s.statement, s.context))
        phased_gate == Gate("", <<>>,
                            [nq |-> 1, qregs |-> <<>>, data |-> <<>>,
                             global_phase |-> AddPhase(ZeroPhase, phase).phase],
                            ListedModifiers(s.statement, s.context))
    IN  /\ SameRegisters(s.circuit, s.done.circuit)
        /\ s.done.context = s.context
        /\ IF s.statement.qubits = <<>>
           THEN /\ s.done.circuit.global_phase = AddPhase(s.circuit.global_phase, phase).phase
                /\ s.done.circuit.data = s.circuit.data
           ELSE /\ s.done.circuit.global_phase = s.circuit.global_phase
                /\ s.done.circuit.data =
                       Append(s.circuit.data,
                              Instruction("gate", phased_gate,
                                          [i \in 1..Len(qubits) |-> <<qubits[i]>>]))

\* C3: every QuantumPhase statement that is processed to completion (at top
\* level or in a gate body): with no qubit operand, it adds exactly the
\* evaluated phase to the sink's global phase and leaves the operation list
\* as it was, whatever modifiers it lists; with at least one qubit operand it
\* appends exactly one gate, the single-qubit phase gate under all listed
\* modifiers in listed order, bound to the flattened operand sequence, and
\* leaves the global phase as it was.
C3_QuantumPhaseForks ==
    [][\A s \in Processed :
          (s.statement.type = "QuantumPhase" /\ s.done.raised = NoError) => PhaseEffect(s)]_vars

\* C3 witness: a program that completed a phase statement without operands
\* under a modifier and one with two modifiers on two operands.
C3_Witness ==
    /\ raised = NoError
    /\ \E j, k \in 1..Len(ast) :
          /\ ast[j].type = "QuantumPhase" /\ ast[j].qubits = <<>> /\ ast[j].modifiers # <<>>
          /\ ast[k].type = "QuantumPhase" /\ Len(ast[k].qubits) = 2
          /\ Len(ast[k].modifiers) = 2
    /\ circuit.global_phase.num = 2
    /\ Len(circuit.data) = 1

-----------------------------------------------------------------------------
\* The names a gate definition binds in its own scope only: its parameters
\* and what its body declares, where the parent has nothing bound.
DeclaredInside(statement, ctx) ==
    LET scopes == { BodyAfter(statement, ctx, i).context : i \in 0..Len(statement.body) }
    IN  { n \in Names : ~IsDefined(ctx, n) /\ \E scope \in scopes : IsDefined(scope, n) }

\* C4: scope isolation of gate definitions.  After a QuantumGateDefinition
\* statement, a name bound only inside the definition (a qubit parameter, a
\* classical parameter, a declaration of the body) is as unresolvable in the
\* parent context as it was before; and every name bound in the parent
\* context before the statement resolves, to the same value, at every
\* statement of the body.
C4_ScopeIsolation ==
    [][\A s \in Processed :
          s.statement.type = "QuantumGateDefinition" =>
              /\ \A n \in DeclaredInside(s.statement, s.context) \ {s.statement.name} :
                    /\ s.done.context[n] = s.context[n]
                    /\ n \notin DOMAIN BuiltinGates =>
                          lookup(s.done.context, n).raised = Error("UnresolvedSymbol", n)
              /\ \A i \in 1..Len(s.statement.body) :
                    LET before == BodyBefore(s.statement, s.context, i)
                    IN  before.raised = NoError =>
                            \A n \in Names :
                                IsDefined(s.context, n) =>
                                    lookup(before.context, n)
                                        = [value |-> s.context[n], raised |-> NoError]]_vars

\* C4 witness: a completed definition of g(t) a, b whose body declares k and
\* uses k, in a program that bound c before: c is still bound, g is bound,
\* and t, a, b, k are not.
C4_Witness ==
    /\ Len(ast) >= 2
    /\ raised = NoError
    /\ Last.type = "QuantumGateDefinition"
    /\ \E i \in 1..Len(Last.body) : Last.body[i].type = "ConstantDeclaration"
    /\ context["c"].kind = "value"
    /\ context["g"].kind = "gate"
    /\ Len(context["g"].circ.data) = 1
    /\ \A n \in {"t", "a", "b", "k"} : context[n].kind = "absent"

-----------------------------------------------------------------------------
\* The values of a QuantumGate statement's arguments, in argument order.
ArgumentValues(statement, ctx) ==
    [i \in 1..Len(statement.arguments) |->
        compute_expression(statement.arguments[i], ctx).value]

\* Everything of a QuantumGate statement other than its name evaluates: the
\* arguments, the constructor on them, the operands, the modifiers' arguments.
RestEvaluates(statement, ctx) ==
    /\ \A i \in 1..Len(statement.arguments) :
          compute_expression(statement.arguments[i], ctx).raised = NoError
    /\ Call(lookup(ctx, statement.name).value, ArgumentValues(statement, ctx)).raised = NoError
    /\ \A i \in 1..Len(statement.qubits) :
          get_identifier(statement.qubits[i], ctx).raised = NoError
    /\ \A i \in 1..Len(statement.modifiers) :
          ModifierArgument(statement.modifiers[i], ctx).raised = NoError

\* The one operation a QuantumGate statement appends.
GateOperation(statement, ctx) ==
    Instruction("gate",
                [Call(lookup(ctx, statement.name).value, ArgumentValues(statement, ctx)).gate
                    EXCEPT !.mods = ListedModifiers(statement, ctx)],
                Operands(statement, ctx))

\* C5: every QuantumGate statement (at top level or in a gate body).  If its
\* name resolves in the context (and its arguments, operands and modifiers
\* evaluate), it completes and appends exactly one operation: the gate made
\* by the resolved constructor from the argument values in argument order,
\* under the statement's modifiers applied left to right, bound to the
\* resolved operands in operand order.  If its name is unresolved it fails.
\* Whenever it fails, the sink's registers, operations and global phase are
\* as they were.
C5_QuantumGateEffect ==
    [][\A s \in Processed :
          s.statement.type = "QuantumGate" =>
              /\ (lookup(s.context, s.statement.name).raised = NoError
                  /\ RestEvaluates(s.statement, s.context)) =>
                    /\ s.done.raised = NoError
                    /\ s.done.circuit =
                          [s.circuit EXCEPT !.data =
                              Append(@, GateOperation(s.statement, s.context))]
              /\ lookup(s.context, s.statement.name).raised # NoError =>
                    s.done.raised # NoError
              /\ s.done.raised # NoError => s.done.circuit = s.circuit]_vars

\* C5 witness: inv @ ctrl @ x q[0], q[1] has completed: the last operation
\* of the circuit is x under inv, then ctrl, on the two operands.
C5_Witness ==
    /\ Len(ast) >= 2
    /\ raised = NoError
    /\ Last.type = "QuantumGate"
    /\ Len(Last.modifiers) = 2
    /\ circuit.data # <<>>
    /\ circuit.data[Len(circuit.data)].gate.name = "x"
    /\ circuit.data[Len(circuit.data)].gate.mods =
          << [modifier |-> "inv", argument |-> Absent],
             [modifier |-> "ctrl", argument |-> Absent] >>
    /\ circuit.data[Len(circuit.data)].qargs = << <<Bit("q", 0)>>, <<Bit("q", 1)>> >>

-----------------------------------------------------------------------------
\* The definition of a gate name among the statements translate has
\* processed, and the context it was processed in.
DefinitionOf(name) ==
    CHOOSE k \in 1..Len(ast) :
        ast[k].type = "QuantumGateDefinition" /\ ast[k].name = name

\* The body of a gate definition translated with the i-th classical
\* parameter bound to the i-th value (not to a placeholder) and the j-th
\* qubit parameter bound to position j - 1.
SubstitutedBody(definition, ctx, values) ==
    LET seeded == AddSymbols(ctx,
                             QubitIndices(QubitNames(definition)) \o
                                 [i \in 1..Len(definition.arguments) |->
                                     [name |-> definition.arguments[i].name,
                                      value |-> values[i]]],
                             1)
    IN  ProcessBody(definition.body, 1, QuantumCircuit(Len(definition.qubits)),
                    seeded.context)

\* A completed QuantumGate statement that invokes a defined gate with as many
\* concrete values as the definition has classical parameters and as many
\* single qubits as it has qubit parameters.
InvokesDefinition(s) ==
    /\ s.statement.type = "QuantumGate"
    /\ s.done.raised = NoError
    /\ s.context[s.statement.name].kind = "gate"
    /\ \E k \in 1..Len(ast) :
          ast[k].type = "QuantumGateDefinition" /\ ast[k].name = s.statement.name
    /\ LET definition == ast[DefinitionOf(s.statement.name)]
       IN  /\ Len(s.statement.arguments) = Len(definition.arguments)
           /\ Len(s.statement.qubits) = Len(definition.qubits)
           /\ \A i \in 1..Len(s.statement.arguments) :
                 ArgumentValues(s.statement, s.context)[i].kind = "value"
           /\ \A j \in 1..Len(s.statement.qubits) :
                 Len(Operands(s.statement, s.context)[j]) = 1

\* C6: gate-definition round trip.  A QuantumGate statement invoking a
\* defined gate with n values and m qubits appends one gate whose definition
\* is the definition's body with the i-th value in place of the i-th
\* parameter, whose position j - 1 is the j-th qubit parameter, and whose
\* j-th operand is the j-th call-site qubit; the invocation leaves the
\* context, and so the stored sub-circuit, as it was.
C6_GateDefinitionRoundTrip ==
    [][\A s \in Processed :
          InvokesDefinition(s) =>
              LET k == DefinitionOf(s.statement.name)
                  body == SubstitutedBody(ast[k], Replay(ast, k - 1).context,
                                          ArgumentValues(s.statement, s.context))
              IN  /\ body.raised = NoError
                  /\ s.done.circuit.data =
                        Append(s.circuit.data,
                               Instruction("gate",
                                           Gate("", <<>>, body.circuit,
                                                ListedModifiers(s.statement, s.context)),
                                           Operands(s.statement, s.context)))
                  /\ s.done.context = s.context]_vars

\* C6 witness: after g(t) a, b { rz(t) a; x b; }, the body of w a, b
\* invokes g(1) a, b and inv @ g(2) b, a: two gates are appended, rz(1) in
\* the first and rz(2) in the second, each on its call-site qubits in call
\* order, and the sub-circuit stored for g still has its free parameter.
C6_Witness ==
    /\ raised = NoError
    /\ context["g"].kind = "gate"
    /\ Len(context["g"].circ.data) = 2
    /\ context["g"].circ.data[1].gate.params = <<Parameter("t")>>
    /\ context["w"].kind = "gate"
    /\ Len(context["w"].circ.data) = 2
    /\ \A i \in 1..2 : Len(context["w"].circ.data[i].gate.definition.data) = 2
    /\ context["w"].circ.data[1].gate.definition.data[1].gate.params = <<Value(1)>>
    /\ context["w"].circ.data[2].gate.definition.data[1].gate.params = <<Value(2)>>
    /\ context["w"].circ.data[1].qargs = << <<Bit("", 0)>>, <<Bit("", 1)>> >>
    /\ context["w"].circ.data[2].qargs = << <<Bit("", 1)>>, <<Bit("", 0)>> >>

-----------------------------------------------------------------------------
\* The register names of a sink are pairwise distinct.
RegisterNamesDistinct(circ) ==
    \A i, j \in 1..Len(circ.qregs) : circ.qregs[i].name = circ.qregs[j].name => i = j

\* The size a QubitDeclaration asks for.
DeclaredSize(statement, ctx) ==
    IF statement.expr = None THEN 1 ELSE compute_expression(statement.expr, ctx).value.num

\* C7: every QubitDeclaration that completes (at top level or in a gate
\* body) allocates exactly one register in the sink, named as declared, of
\* size 1 without a designator and of the designator's value with one, and
\* binds the name to that register in the context; a QubitDeclaration of a
\* name already bound in the scope fails; and in every sink (the circuit,
\* every sub-circuit, every stored gate definition) the register names are
\* pairwise distinct.
C7_QubitDeclarationAllocates ==
    [][/\ \A s \in Processed :
             /\ RegisterNamesDistinct(s.done.circuit)
             /\ s.statement.type = "QubitDeclaration" =>
                   /\ IsDefined(s.context, s.statement.name) => s.done.raised # NoError
                   /\ s.done.raised = NoError =>
                         /\ s.done.circuit =
                               [s.circuit EXCEPT !.qregs =
                                   Append(@, [name |-> s.statement.name,
                                              size |-> DeclaredSize(s.statement, s.context)])]
                         /\ s.done.context =
                               [s.context EXCEPT ![s.statement.name] =
                                   QuantumRegister(DeclaredSize(s.statement, s.context),
                                                   s.statement.name)]
       /\ RegisterNamesDistinct(circuit')
       /\ \A n \in Names : RegisterNamesDistinct(context'[n].circ)]_vars

\* C7 witness: a declaration without designator made a register of size 1,
\* qubit[2] q made a register q of size 2 bound in the context, and a second
\* declaration of q has failed.
C7_Witness ==
    /\ Len(ast) = 3
    /\ ast[2] = QubitDeclaration("q", IntegerLiteral(2))
    /\ Last = QubitDeclaration("q", None)
    /\ raised # NoError
    /\ context["q"] = QuantumRegister(2, "q")
    /\ context["k"] = QuantumRegister(1, "k")
    /\ circuit.qregs = << [name |-> "k", size |-> 1], [name |-> "q", size |-> 2] >>

-----------------------------------------------------------------------------
\* A ConstantDeclaration or ClassicalDeclaration of n, without and with an
\* initializer.
DeclaresOnly(statement, n) ==
    /\ statement.type \in {"ConstantDeclaration", "ClassicalDeclaration"}
    /\ statement.name = n
    /\ statement.expr = None

DeclaresWithInitializer(statement, n) ==
    /\ statement.type \in {"ConstantDeclaration", "ClassicalDeclaration"}
    /\ statement.name = n
    /\ statement.expr # None

\* A statement that binds n to a value: a declaration with an initializer, a
\* QubitDeclaration or a QuantumGateDefinition of that name.
Defines(statement, n) ==
    \/ DeclaresWithInitializer(statement, n)
    \/ statement.type \in {"QubitDeclaration", "QuantumGateDefinition"} /\ statement.name = n

\* Forward declaration, for the statements IsDefinition counts as defining:
\* a completed declaration of n without initializer leaves n unresolved and
\* the sink as it was; while n is declared but undefined, a completed
\* statement leaves it unresolved unless it is a definition of n, and a
\* declaration with an initializer binds n to the initializer's value in the
\* context of that statement and leaves the sink as it was; once n is bound,
\* no statement changes what it resolves to.
ForwardDeclaration(s, n, IsDefinition(_, _)) ==
    /\ (DeclaresOnly(s.statement, n) /\ ~IsDefined(s.context, n)) =>
          /\ lookup(s.done.context, n).raised = Error("UnresolvedSymbol", n)
          /\ s.done.circuit = s.circuit
    /\ s.context[n].kind = "declared" =>
          IF DeclaresWithInitializer(s.statement, n)
          THEN /\ lookup(s.done.context, n) =
                     [value |-> compute_expression(s.statement.expr, s.context).value,
                      raised |-> NoError]
               /\ s.done.circuit = s.circuit
          ELSE IF IsDefinition(s.statement, n)
          THEN lookup(s.done.context, n).raised = NoError
          ELSE lookup(s.done.context, n).raised = Error("UnresolvedSymbol", n)
    /\ IsDefined(s.context, n) => lookup(s.done.context, n) = lookup(s.context, n)

\* C8 as stated: after a declaration of n without initializer, a lookup of n
\* fails with UnresolvedSymbol until a later declaration of n with an
\* initializer is processed; from then on n resolves to that initializer's
\* value at the defining statement; the sink is unchanged by both.
C8_OnlyAnInitializerDefines ==
    [][\A s \in Processed : \A n \in Names :
          s.done.raised = NoError => ForwardDeclaration(s, n, DeclaresWithInitializer)]_vars

\* C8, amended: ... until a later statement that defines n is processed: a
\* declaration of n with an initializer (n then resolves to the
\* initializer's value at that statement), or a QubitDeclaration or a
\* QuantumGateDefinition of n (n then resolves to the register or the gate
\* constructor).
C8_ForwardDeclaration ==
    [][\A s \in Processed : \A n \in Names :
          s.done.raised = NoError => ForwardDeclaration(s, n, Defines)]_vars

\* C8 witness: c declared without initializer, then defined by a
\* declaration with initializer 2, then looked up by qubit[c] q, which made
\* a register of size 2.
C8_Witness ==
    /\ Len(ast) = 3
    /\ raised = NoError
    /\ DeclaresOnly(ast[1], "c")
    /\ DeclaresWithInitializer(ast[2], "c")
    /\ context["c"] = Value(2)
    /\ Last = QubitDeclaration("q", Identifier("c"))
    /\ circuit.qregs = << [name |-> "q", size |-> 2] >>
    /\ circuit.data = <<>>

-----------------------------------------------------------------------------
\* The gate's name is new: bound neither in the parent context, nor in the
\* gate table, nor as one of the definition's own parameters.
NewGateName(statement, ctx) ==
    /\ ctx[statement.name].kind = "absent"
    /\ statement.name \notin DOMAIN BuiltinGates
    /\ \A i \in 1..Len(statement.qubits) : statement.qubits[i].name # statement.name
    /\ \A i \in 1..Len(statement.arguments) : statement.arguments[i].name # statement.name

\* C9: a QuantumGateDefinition statement leaves the enclosing sink's
\* registers, operations and global phase as they were, whatever its body
\* contains, and binds the gate's name in the parent context only after the
\* whole body is translated: for a new gate name, every body statement finds
\* the name unresolved; when the body fails, the statement fails with the
\* body's exception, the parent context is as it was (no binding for the
\* name) and translate stops; when the body completes, the only change to
\* the parent context is the name bound to the constructor over the
\* sub-circuit.
C9_GateDefinitionFrame ==
    [][/\ \A s \in Processed :
             s.statement.type = "QuantumGateDefinition" =>
                 LET body == BodyAfter(s.statement, s.context, Len(s.statement.body))
                 IN  /\ s.done.circuit = s.circuit
                     /\ NewGateName(s.statement, s.context) =>
                           /\ \A i \in 1..Len(s.statement.body) :
                                 BodyBefore(s.statement, s.context, i).raised = NoError =>
                                     lookup(BodyBefore(s.statement, s.context, i).context,
                                            s.statement.name).raised
                                         = Error("UnresolvedSymbol", s.statement.name)
                           /\ body.raised # NoError =>
                                 /\ s.done.raised = body.raised
                                 /\ s.done.context = s.context
                                 /\ pc' = "raised"
                           /\ body.raised = NoError =>
                                 /\ s.done.raised = NoError
                                 /\ s.done.context =
                                       [s.context EXCEPT ![s.statement.name] =
                                           GateConstructor(body.circuit,
                                                           ArgumentNames(s.statement))]
       /\ pc = "raised" => UNCHANGED vars]_vars

\* C9 witness: after a register and an operation, the definition of g whose
\* body invokes g has failed on the unresolved g: the circuit holds the
\* register and the one operation, and g is not bound.
C9_Witness ==
    /\ Len(ast) = 3
    /\ Last.type = "QuantumGateDefinition"
    /\ Last.name = "g"
    /\ raised = Error("UnresolvedSymbol", "g")
    /\ pc = "raised"
    /\ context["g"].kind = "absent"
    /\ Len(circuit.qregs) = 1
    /\ Len(circuit.data) = 1
    /\ circuit = Before.circuit

-----------------------------------------------------------------------------
\* C10: a QubitDeclaration that fails leaves the sink as it was, so that in
\* every reachable state, the state at the point of failure included, every
\* register of the circuit is bound under its name in the context.
C10_FailedQubitDeclarationLeavesSink ==
    /\ (Len(ast) > 0 /\ Last.type = "QubitDeclaration" /\ raised # NoError) =>
          circuit = Before.circuit
    /\ \A i \in 1..Len(circuit.qregs) :
          context[circuit.qregs[i].name] =
              QuantumRegister(circuit.qregs[i].size, circuit.qregs[i].name)

====
